---- MODULE Spec2Model ----
(***************************************************************************)
(* Performance scheduler of the score player (src/App.tsx) together with   *)
(* the parts of the audio engine (src/unnamed/part_000, imported by        *)
(* App.tsx as ./utils/audioEngine) that the scheduler drives.              *)
(*                                                                         *)
(* Time is counted in milliseconds.  audioEngine.context.currentTime and   *)
(* the timer clock of window.setTimeout are one variable, clock; a pending *)
(* timer fires exactly when the clock reaches its due time.                *)
(*                                                                         *)
(* One action is one task of the browser's event loop: the handler, the    *)
(* batched re-render that its state updates cause, and the run of the      *)
(* playback effect (cleanup first, then the body) when one of the effect's *)
(* dependencies changed.  State updates made in one task, and in the       *)
(* microtasks that follow it, are rendered together.                       *)
(*                                                                         *)
(* Several specifications share the module.  Spec is the scheduler.       *)
(* SpecPitch applies AudioEngine.getFrequency to pitch strings, and        *)
(* SpecArrange applies playMeasure to measures; both draw their inputs in  *)
(* their initial states.  SpecImport follows overlapping imports,          *)
(* SpecTempo the tempo across imports and button presses, SpecEngine the   *)
(* AudioEngine's methods called in any order, SpecVocal a performance with *)
(* the decodes of the vocal clips in flight, and SpecPerform a performance *)
(* left alone, under fairness of the timer.  The output graph is followed  *)
(* in the last three and in SpecArrange only.  A string is a tuple of its  *)
(* characters.  A double is the exact number it stands for: a frequency    *)
(* 440 * 2^(s/12) is the semitone count s.                                 *)
(***************************************************************************)
EXTENDS Integers, Sequences, FiniteSets, TLC

\* ------------------------------------------------------------- bounds
MaxTime == 3000          \* the clock stops advancing here (ms)
TickStep == 700          \* the largest step of the clock between two events (ms)
MaxInFlight == 1         \* analyses that may be in flight at once
MaxTempoSteps == 1       \* tempo presses stay within this many steps of the score's tempo
MaxPitchLen == 3         \* characters of a pitch string given to getFrequency
MaxNotes == 2            \* notes of a measure's melody
MaxChords == 2           \* chords of a measure
MaxOverlap == 2          \* imports that may overlap in the import specification
MaxEngineCalls == 3      \* sounds connected or awaited in the engine specification

\* -------------------------------------------------- program constants
DefaultTempo == 90
MinTempo == 40
MaxTempo == 240
TempoStep == 5
BeatsPerMeasure == 4
MsPerMinute == 60000     \* 60 / tempo seconds per beat, times 1000 for setTimeout
LeadMs == 100            \* now + 0.1
KickMs == 100            \* osc.stop(startTime + 0.1)
SnareMs == 100           \* createBuffer(1, ctx.sampleRate * 0.1, ctx.sampleRate)
HihatMs == 50            \* createBuffer(1, ctx.sampleRate * 0.05, ctx.sampleRate)

\* --------------------------------------------------------------- types
PIANO == "piano"
GUITAR == "guitar"
BASS == "bass"
DRUMS == "drums"
MALE_VOCAL == "maleVocal"
FEMALE_VOCAL == "femaleVocal"

InstrumentType == {PIANO, GUITAR, BASS, DRUMS, MALE_VOCAL, FEMALE_VOCAL}

\* useState(new Set([PIANO, DRUMS]))
InitialInstruments == {PIANO, DRUMS}

\* The toggles the user presses in this model.
ToggleInputs == {PIANO}

\* score === null
NoScore == [id |-> 0, n |-> 0, tempo |-> 0, lyrics |-> {}]

\* What the transcription service may return: the number of measures, the
\* tempo field (0 stands for a missing or zero tempo) and the indices of the
\* measures whose melody carries lyrics.  The notes of these scores carry
\* pitches getFrequency resolves; SpecArrange has the others.
ScoreInputs ==
    { [n |-> 1, tempo |-> 0, lyrics |-> {}],
      [n |-> 3, tempo |-> 240, lyrics |-> {1}] }

\* useState<Record<string, string>>({}): src is the analysis that built the
\* map (0 for the empty map set by startAnalysis and by useState).
EmptyVocalMap == [src |-> 0, keys |-> {}]

Slots == 1..MaxInFlight
IdleSlot == [phase |-> "idle", lyrics |-> {}]

VARIABLES
    score, isAnalyzing, isPreparingVocals, isPlaying, tempo,
    selectedInstruments, currentMeasureIndex, vocalAudioMap,   \* useState
    playbackTimerRef, measureStartTimeRef,                     \* useRef
    timers,        \* pending window.setTimeout callbacks
    clock,         \* audioEngine.context.currentTime, in ms
    analyses,      \* startAnalysis calls in flight, by slot (lyrics: the measures whose vocals are awaited)
    crashed,       \* an exception left the playback effect: the tree is unmounted
    lastOp,        \* the operation that produced this state
    wasPlaying,    \* isPlaying before that operation
    calls,         \* the playMeasure calls the last operation issued
    measureSounds, \* what has been submitted to the output graph for the measure last armed
    armedAt,       \* clock when the current measure was armed (0 when none is)
    armedTempo,    \* tempo in effect when the current measure was armed
    pitch,         \* the pitch string given to getFrequency
    frequency,     \* what getFrequency returned for it
    measure,       \* score.measures[i], alike for every i
    arranged,      \* the engine calls of the last playMeasure that scheduled a sound, in order
    earlier,       \* the events of the playMeasure call before, relative to its startTime
    audioEngine,   \* the fields ctx, masterGain and analyser of the AudioEngine (0: null)
    outputGraph,   \* what was created and connected so far: contexts, and sources by synthesizer
    decoding,      \* the playVocalBuffer calls waiting at decodeAudioData, in call order
    vocalPayload   \* what the payloads in vocalAudioMap are, alike for every measure

vars == << score, isAnalyzing, isPreparingVocals, isPlaying, tempo,
           selectedInstruments, currentMeasureIndex, vocalAudioMap,
           playbackTimerRef, measureStartTimeRef, timers, clock, analyses,
           crashed, lastOp, wasPlaying, calls, measureSounds, armedAt, armedTempo,
           pitch, frequency, measure, arranged, earlier,
           audioEngine, outputGraph, decoding, vocalPayload >>

\* The state of the scheduler, and the state the audio engine's functions are
\* applied to.
schedulerVars == << score, isAnalyzing, isPreparingVocals, isPlaying, tempo,
                    selectedInstruments, currentMeasureIndex, vocalAudioMap,
                    playbackTimerRef, measureStartTimeRef, timers, clock, analyses,
                    crashed, wasPlaying, calls, measureSounds, armedAt, armedTempo >>
engineVars == << pitch, frequency >>
arrangerVars == << measure, arranged, earlier >>
graphVars == << audioEngine, outputGraph, decoding, vocalPayload >>

\* ------------------------------------------------------------- helpers
\* ---- AudioEngine.getFrequency
Letters == {"A", "B", "C", "D", "E", "F", "G"}
Accidentals == {"#", "b"}
DigitValue == [ c \in {"0", "1", "2", "3", "4", "5", "6", "7", "8", "9"} |->
                  CASE c = "0" -> 0 [] c = "1" -> 1 [] c = "2" -> 2 [] c = "3" -> 3
                    [] c = "4" -> 4 [] c = "5" -> 5 [] c = "6" -> 6 [] c = "7" -> 7
                    [] c = "8" -> 8 [] c = "9" -> 9 ]
Digits == DOMAIN DigitValue

\* The characters pitch strings are made of here: the letters, accidentals
\* and digits of the pattern, and one character outside it.
PitchAlphabet == Letters \cup Accidentals \cup Digits \cup {"x"}

\* The sequences of at most n elements of S.
RECURSIVE SeqsUpTo(_, _)
SeqsUpTo(S, n) ==
    IF n = 0 THEN { << >> }
    ELSE LET shorter == SeqsUpTo(S, n - 1)
         IN  shorter \cup { Append(w, c) : w \in {v \in shorter : Len(v) = n - 1},
                                           c \in S }

PitchInputs == SeqsUpTo(PitchAlphabet, MaxPitchLen)

\* const notes: Record<string, number> = { 'C': 0, 'C#': 1, 'Db': 1, ... }
notes ==
    (<< "C" >> :> 0) @@ (<< "C", "#" >> :> 1) @@ (<< "D", "b" >> :> 1) @@
    (<< "D" >> :> 2) @@ (<< "D", "#" >> :> 3) @@ (<< "E", "b" >> :> 3) @@
    (<< "E" >> :> 4) @@ (<< "F" >> :> 5) @@ (<< "F", "#" >> :> 6) @@
    (<< "G", "b" >> :> 6) @@ (<< "G" >> :> 7) @@ (<< "G", "#" >> :> 8) @@
    (<< "A", "b" >> :> 8) @@ (<< "A" >> :> 9) @@ (<< "A", "#" >> :> 10) @@
    (<< "B", "b" >> :> 10) @@ (<< "B" >> :> 11)

\* /([A-G][#b]?)([0-9])/ tried at position i of p: the accidental is taken
\* when a digit follows it, and left out when the digit follows the letter.
NoMatch == [ok |-> FALSE]
MatchAt(p, i) ==
    IF i + 2 <= Len(p) /\ p[i] \in Letters /\ p[i + 1] \in Accidentals
                      /\ p[i + 2] \in Digits
    THEN [ok |-> TRUE, note |-> << p[i], p[i + 1] >>, octave |-> p[i + 2]]
    ELSE IF i + 1 <= Len(p) /\ p[i] \in Letters /\ p[i + 1] \in Digits
    THEN [ok |-> TRUE, note |-> << p[i] >>, octave |-> p[i + 1]]
    ELSE NoMatch

\* pitch.match(...): the pattern is not anchored, so the leftmost position
\* where it matches wins.
Match(p) ==
    LET hits == {i \in 1..Len(p) : MatchAt(p, i).ok}
    IN  IF hits = {} THEN NoMatch
        ELSE MatchAt(p, CHOOSE i \in hits : \A j \in hits : i <= j)

\* A frequency: 440 * Math.pow(2, semitones / 12), or NaN.
Tone(semitones) == [nan |-> FALSE, semitones |-> semitones]
NaN == [nan |-> TRUE, semitones |-> 0]
NotResolved == [nan |-> FALSE, semitones |-> -1000]

\* getFrequency: 440 without a match; notes[note] + (octave - 4) * 12
\* semitones otherwise, where notes[note] is undefined for a name the table
\* lacks and undefined + number is NaN.
GetFrequency(p) ==
    LET m == Match(p)
    IN  IF ~m.ok THEN Tone(0)
        ELSE IF m.note \notin DOMAIN notes THEN NaN
        ELSE Tone(notes[m.note] + (DigitValue[m.octave] - 4) * 12)

Min(a, b) == IF a < b THEN a ELSE b
Max(a, b) == IF a > b THEN a ELSE b

\* const beatDuration = 60 / tempo; const measureDuration = 4 * beatDuration;
\* setTimeout(..., measureDuration * 1000)
MeasureDuration(t) == (BeatsPerMeasure * MsPerMinute) \div t

\* clearTimeout(playbackTimerRef.current), guarded by if (playbackTimerRef.current)
\* (ClearTimeoutNoop: the call left out)
ClearTimeoutNoop(tms, ref) == tms
ClearTimeout(tms, ref) == IF ref # 0 THEN {t \in tms : t.id # ref} ELSE tms

\* the id window.setTimeout returns: one no pending timer carries
NewTimerId(tms) == CHOOSE i \in 1..(Cardinality(tms) + 1) :
                      /\ \A t \in tms : t.id # i
                      /\ \A j \in 1..(i - 1) : \E t \in tms : t.id = j

\* if (measureStartTimeRef.current === 0) measureStartTimeRef.current = now + 0.1
AnchorFor(anchor, now) == IF anchor = 0 THEN now + LeadMs ELSE anchor

\* playMeasure reads score.measures[index].melody (piano or guitar selected)
\* or .chords (bass selected): a TypeError when the measure does not exist.
PlayMeasureThrows(idx, sc, sel) ==
    /\ idx >= sc.n
    /\ sel \cap {PIANO, GUITAR, BASS} # {}

\* The call playMeasure(currentMeasureIndex, measureStartTimeRef.current) with
\* what its closure holds.
PlayMeasureCall(idx, start, sc, tmp, sel, vmap) ==
    [ index |-> idx, startTime |-> start, tempo |-> tmp, instruments |-> sel,
      vocal |-> (idx \in vmap.keys /\ sel \cap {MALE_VOCAL, FEMALE_VOCAL} # {}) ]

\* The updater of setCurrentMeasureIndex in the timer callback; len is
\* score.measures.length of the closure.  (AdvanceIndexRepeat: wrapping to
\* the first measure without setIsPlaying(false).)
AdvanceIndexRepeat(prev, len) ==
    IF prev + 1 >= len THEN [index |-> 0, stop |-> FALSE]
    ELSE [index |-> prev + 1, stop |-> FALSE]
AdvanceIndex(prev, len) ==
    IF prev + 1 >= len THEN [index |-> 0, stop |-> TRUE]
    ELSE [index |-> prev + 1, stop |-> FALSE]

\* The Reset Session button.  (ResetKeepsAnchor: without
\* measureStartTimeRef.current = 0.)
ResetKeepsAnchor == [isPlaying |-> FALSE, index |-> 0, anchor |-> measureStartTimeRef]
ResetUpdate == [isPlaying |-> FALSE, index |-> 0, anchor |-> 0]

\* What stopping does to the output graph.  The else branch of the playback
\* effect and its cleanup call clearTimeout and nothing else: no oscillator or
\* buffer source is stopped or disconnected, and masterGain is left alone.
\* (GraphAfterStopMuted: a stop that silences what has not played out.)
GraphAfterStopMuted(g) == {}
GraphAfterStop(g) == g

\* What one playMeasure call puts into the output graph: the sound events of
\* the measure index, laid out from startTime on.  Every playNote, playDrum
\* and playVocalBuffer call connects its source to masterGain and starts it;
\* nothing in the program removes a source once it is connected.
Submitted(call) == [ index |-> call.index, startTime |-> call.startTime ]

\* The playback effect after a render: nothing when no dependency changed;
\* otherwise the previous run's cleanup and then the body.  tms and anchor0
\* are the pending timers and the anchor as the handler left them; the other
\* parameters are the state of the new render.  fresh tells whether the
\* measure is newly armed (isPlaying, currentMeasureIndex or score changed)
\* or the effect ran again for the measure already armed.
EffectResult(changed, fresh, tms, anchor0, playing, idx, sc, tmp, sel, vmap) ==
    LET keep == [ timers |-> tms, ref |-> playbackTimerRef, anchor |-> anchor0,
                  crashed |-> FALSE, calls |-> << >>, measureSounds |-> measureSounds,
                  armedAt |-> armedAt, armedTempo |-> armedTempo ]
        cleared == ClearTimeout(tms, playbackTimerRef)
    IN  IF ~changed THEN keep
        ELSE IF playing /\ sc.id # 0
        THEN LET anchor == AnchorFor(anchor0, clock)
                 call == PlayMeasureCall(idx, anchor, sc, tmp, sel, vmap)
                 id == NewTimerId(cleared)
                 hist == [ keep EXCEPT
                             !.anchor = anchor,
                             !.calls = << call >>,
                             !.armedAt = IF fresh THEN clock ELSE armedAt,
                             !.armedTempo = IF fresh THEN tmp ELSE armedTempo ]
             IN  IF PlayMeasureThrows(idx, sc, sel)
                 THEN [ hist EXCEPT !.timers = cleared, !.crashed = TRUE ]
                 ELSE [ hist EXCEPT
                          !.measureSounds = (IF fresh THEN {} ELSE measureSounds) \cup {Submitted(call)},
                          !.timers = cleared \cup
                              { [ id |-> id, due |-> clock + MeasureDuration(tmp),
                                  dur |-> MeasureDuration(tmp), len |-> sc.n ] },
                          !.ref = id ]
        ELSE [ keep EXCEPT !.timers = cleared, !.measureSounds = GraphAfterStop(measureSounds),
                           !.armedAt = 0, !.armedTempo = DefaultTempo ]

Commit(r, op) ==
    /\ timers' = r.timers
    /\ playbackTimerRef' = r.ref
    /\ measureStartTimeRef' = r.anchor
    /\ crashed' = r.crashed
    /\ calls' = r.calls
    /\ measureSounds' = r.measureSounds
    /\ armedAt' = r.armedAt
    /\ armedTempo' = r.armedTempo
    /\ lastOp' = op
    /\ wasPlaying' = isPlaying
    /\ UNCHANGED << engineVars, arrangerVars, graphVars >>

\* The player controls are rendered under {score && !isAnalyzing && (...)}.
ControlsShown == ~crashed /\ score.id # 0 /\ ~isAnalyzing

\* ---- playMeasure
\* Doubles as exact fractions n / d, d > 0, in lowest terms.
Abs(x) == IF x < 0 THEN -x ELSE x
RECURSIVE GCD(_, _)
GCD(a, b) == IF b = 0 THEN a ELSE GCD(b, a % b)
Q(n, d) == LET g == GCD(Abs(n), d) IN [n |-> n \div g, d |-> d \div g]
QInt(i) == [n |-> i, d |-> 1]
QAdd(a, b) == Q(a.n * b.d + b.n * a.d, a.d * b.d)
QSub(a, b) == Q(a.n * b.d - b.n * a.d, a.d * b.d)
QMul(a, b) == Q(a.n * b.n, a.d * b.d)
QLeq(a, b) == a.n * b.d <= b.n * a.d

\* const beatDuration = 60 / tempo, here in ms.
BeatDuration(t) == Q(MsPerMinute, t)

\* The notes and chords measures are made of here: pitches the notes table
\* names and one it lacks, durations of one, two and half a beat; the chord
\* names "Bb" and "".
NoteInputs ==
    { [pitch |-> << "C", "4" >>, duration |-> QInt(1)],
      [pitch |-> << "G", "4" >>, duration |-> QInt(2)],
      [pitch |-> << "C", "b", "4" >>, duration |-> Q(1, 2)] }
ChordInputs == { << "B", "b" >>, << >> }
GrooveInputs == { "", "swing" }
NoMeasure == [melody |-> << >>, chords |-> << >>, drumGroove |-> ""]
MeasureInputs ==
    [ melody : SeqsUpTo(NoteInputs, MaxNotes),
      chords : SeqsUpTo(ChordInputs, MaxChords),
      drumGroove : GrooveInputs ]
TempoInputs == {DefaultTempo, 120}

\* playVocalBuffer serves both vocal instruments; the clip it starts lasts
\* as long as the decoded payload, which playMeasure never reads.
VOCAL == "vocal"
ClipLength == QInt(0)

\* A call of the engine that scheduled a sound: the track's instrument, the
\* voice (the pitch of a note, the type of a drum, the payload of a clip),
\* and the start and length of the sound in ms.
Call(inst, voice, start, dur) ==
    [instrument |-> inst, voice |-> voice, startTime |-> start, duration |-> dur]

\* playNote: osc.frequency.setValueAtTime(freq, startTime) throws a TypeError
\* for a frequency that is not finite, before osc.start.
PlayNoteThrows(p) == GetFrequency(p).nan

\* measure.melody.forEach(note => { playNote(note.pitch, note.duration *
\* beatDuration, inst, startTime + offset); offset += ... }), from note k on:
\* the calls made, and whether one threw.
RECURSIVE MelodyCalls(_, _, _, _, _, _)
MelodyCalls(melody, k, offset, inst, beat, start) ==
    IF k > Len(melody) THEN [calls |-> << >>, threw |-> FALSE]
    ELSE IF PlayNoteThrows(melody[k].pitch) THEN [calls |-> << >>, threw |-> TRUE]
    ELSE LET dur == QMul(melody[k].duration, beat)
             rest == MelodyCalls(melody, k + 1, QAdd(offset, dur), inst, beat, start)
         IN  [ calls |-> << Call(inst, melody[k].pitch, QAdd(start, offset), dur) >>
                          \o rest.calls,
               threw |-> rest.threw ]

\* const root = chord.charAt(0) + "2"
Root(chord) == IF Len(chord) = 0 THEN << "2" >> ELSE << chord[1], "2" >>

\* measure.chords.forEach((chord, i) => playNote(root, chordDuration, BASS,
\* startTime + (i * chordDuration))), from chord k on (i = k - 1).
\* (BassCallsFromNow: the slots counted from the time of the call, not from
\* startTime.)
RECURSIVE BassCallsFromNow(_, _, _, _)
BassCallsFromNow(chords, k, chordDuration, start) ==
    IF k > Len(chords) THEN [calls |-> << >>, threw |-> FALSE]
    ELSE LET rest == BassCallsFromNow(chords, k + 1, chordDuration, start)
         IN  [ calls |-> << Call(BASS, Root(chords[k]),
                                 QAdd(QInt(clock), QMul(QInt(k - 1), chordDuration)),
                                 chordDuration) >> \o rest.calls,
               threw |-> rest.threw ]
RECURSIVE BassCalls(_, _, _, _)
BassCalls(chords, k, chordDuration, start) ==
    IF k > Len(chords) THEN [calls |-> << >>, threw |-> FALSE]
    ELSE IF PlayNoteThrows(Root(chords[k])) THEN [calls |-> << >>, threw |-> TRUE]
    ELSE LET rest == BassCalls(chords, k + 1, chordDuration, start)
         IN  [ calls |-> << Call(BASS, Root(chords[k]),
                                 QAdd(start, QMul(QInt(k - 1), chordDuration)),
                                 chordDuration) >> \o rest.calls,
               threw |-> rest.threw ]

\* The body of for (let i = 0; i < 4; i++): two hi-hats, then the kick on
\* beats 0 and 2 or the snare on beats 1 and 3.  (DrumBeatOffbeatFirst: the
\* two hi-hat calls in the other order.)
DrumBeatOffbeatFirst(i, beat, start) ==
    LET at == QAdd(start, QMul(QInt(i), beat))
        half == QAdd(at, QMul(Q(1, 2), beat))
    IN  << Call(DRUMS, << "hihat" >>, half, QInt(HihatMs)),
           Call(DRUMS, << "hihat" >>, at, QInt(HihatMs)) >>
        \o (IF i = 0 \/ i = 2 THEN << Call(DRUMS, << "kick" >>, at, QInt(KickMs)) >> ELSE << >>)
        \o (IF i = 1 \/ i = 3 THEN << Call(DRUMS, << "snare" >>, at, QInt(SnareMs)) >> ELSE << >>)
DrumBeat(i, beat, start) ==
    LET at == QAdd(start, QMul(QInt(i), beat))
        half == QAdd(at, QMul(Q(1, 2), beat))
    IN  << Call(DRUMS, << "hihat" >>, at, QInt(HihatMs)),
           Call(DRUMS, << "hihat" >>, half, QInt(HihatMs)) >>
        \o (IF i = 0 \/ i = 2 THEN << Call(DRUMS, << "kick" >>, at, QInt(KickMs)) >> ELSE << >>)
        \o (IF i = 1 \/ i = 3 THEN << Call(DRUMS, << "snare" >>, at, QInt(SnareMs)) >> ELSE << >>)

DrumCalls(beat, start) ==
    DrumBeat(0, beat, start) \o DrumBeat(1, beat, start)
        \o DrumBeat(2, beat, start) \o DrumBeat(3, beat, start)

\* const inst = selectedInstruments.has(PIANO) ? PIANO : GUITAR
\* (MelodyTimbreGuitarFirst: the test made on the guitar.)
MelodyTimbreGuitarFirst(sel) == IF GUITAR \in sel THEN GUITAR ELSE PIANO
MelodyTimbre(sel) == IF PIANO \in sel THEN PIANO ELSE GUITAR

\* playMeasure(index, startTime) on a measure that exists: the calls that
\* scheduled a sound, in the order made, and whether playNote threw (the
\* calls after it are then never made).  hasVocal is vocalAudioMap[index].
PlayMeasure(m, hasVocal, start, tmp, sel) ==
    LET beat == BeatDuration(tmp)
        none == [calls |-> << >>, threw |-> FALSE]
        inst == MelodyTimbre(sel)
        mel == IF PIANO \in sel \/ GUITAR \in sel
               THEN MelodyCalls(m.melody, 1, QInt(0), inst, beat, start)
               ELSE none
        bass == IF BASS \in sel /\ Len(m.chords) > 0
                THEN BassCalls(m.chords, 1,
                               Q(BeatsPerMeasure * beat.n, beat.d * Len(m.chords)), start)
                ELSE none
        drums == IF DRUMS \in sel THEN DrumCalls(beat, start) ELSE << >>
        vocal == IF hasVocal /\ (MALE_VOCAL \in sel \/ FEMALE_VOCAL \in sel)
                 THEN << Call(VOCAL, << "clip" >>, start, ClipLength) >>
                 ELSE << >>
    IN  IF mel.threw THEN mel
        ELSE IF bass.threw THEN [calls |-> mel.calls \o bass.calls, threw |-> TRUE]
        ELSE [calls |-> mel.calls \o bass.calls \o drums \o vocal, threw |-> FALSE]

\* The events of a playMeasure call at startTime start, relative to it.
Relative(cs, start) ==
    { [instrument |-> cs[i].instrument, offset |-> QSub(cs[i].startTime, start),
       duration |-> cs[i].duration] : i \in 1..Len(cs) }

\* ---------------------------------------------------------------- Init
\* The AudioEngine after construction: its three fields are null, nothing
\* has been created.  The payloads of the vocal map are decodable audio.
NoEngine == [ctx |-> 0, masterGain |-> 0, analyser |-> 0]
NoOutput == [created |-> 0, notes |-> 0, drums |-> 0, clips |-> 0, targets |-> {},
             unhandled |-> FALSE]
AUDIO == "audio"
GraphInit ==
    /\ audioEngine = NoEngine
    /\ outputGraph = NoOutput
    /\ decoding = << >>
    /\ vocalPayload = AUDIO

\* The scheduler's part of the state after construction.
SchedulerInit ==
    /\ score = NoScore
    /\ isAnalyzing = FALSE
    /\ isPreparingVocals = FALSE
    /\ isPlaying = FALSE
    /\ tempo = DefaultTempo
    /\ selectedInstruments = InitialInstruments
    /\ currentMeasureIndex = 0
    /\ vocalAudioMap = EmptyVocalMap
    /\ playbackTimerRef = 0
    /\ measureStartTimeRef = 0
    /\ timers = {}
    /\ clock = 0
    /\ analyses = [a \in Slots |-> IdleSlot]
    /\ crashed = FALSE
    /\ lastOp = "init"
    /\ wasPlaying = FALSE
    /\ calls = << >>
    /\ measureSounds = {}
    /\ armedAt = 0
    /\ armedTempo = DefaultTempo

Init ==
    /\ SchedulerInit
    /\ GraphInit
    /\ pitch = << >>
    /\ frequency = NotResolved
    /\ measure = NoMeasure
    /\ arranged = << >>
    /\ earlier = {}

\* ------------------------------------------------------------- actions

\* handlePlayToggle with isPlaying false.
Play ==
    /\ ControlsShown /\ ~isPreparingVocals /\ ~isPlaying
    /\ isPlaying' = TRUE
    /\ Commit(EffectResult(TRUE, TRUE, timers, 0, TRUE, currentMeasureIndex,
                           score, tempo, selectedInstruments, vocalAudioMap), "play")
    /\ UNCHANGED << score, isAnalyzing, isPreparingVocals, tempo, selectedInstruments,
                    currentMeasureIndex, vocalAudioMap, clock, analyses >>

\* handlePlayToggle with isPlaying true.
Pause ==
    /\ ControlsShown /\ ~isPreparingVocals /\ isPlaying
    /\ isPlaying' = FALSE
    /\ Commit(EffectResult(TRUE, FALSE, timers, measureStartTimeRef, FALSE,
                           currentMeasureIndex, score, tempo, selectedInstruments,
                           vocalAudioMap), "pause")
    /\ UNCHANGED << score, isAnalyzing, isPreparingVocals, tempo, selectedInstruments,
                    currentMeasureIndex, vocalAudioMap, clock, analyses >>

\* The Reset Session button.
Reset ==
    /\ ControlsShown
    /\ LET u == ResetUpdate
       IN  /\ isPlaying' = u.isPlaying
           /\ currentMeasureIndex' = u.index
           /\ Commit(EffectResult(isPlaying # u.isPlaying \/ currentMeasureIndex # u.index,
                                  TRUE, timers, u.anchor, u.isPlaying, u.index, score,
                                  tempo, selectedInstruments, vocalAudioMap), "reset")
    /\ UNCHANGED << score, isAnalyzing, isPreparingVocals, tempo, selectedInstruments,
                    vocalAudioMap, clock, analyses >>

\* setTempo(result.tempo || 90)
LoadedTempoAsIs(t) == t
LoadedTempo(t) == IF t = 0 THEN DefaultTempo ELSE t

\* setTempo(t => Math.max(40, t - 5)) and setTempo(t => Math.min(240, t + 5))
TempoDownValue(t) == Max(MinTempo, t - TempoStep)
TempoUpValue(t) == Min(MaxTempo, t + TempoStep)

\* The presses this model makes keep the tempo near the loaded score's tempo.
TempoWithinReach(t) ==
    LET base == LoadedTempo(score.tempo)
    IN  /\ t <= base + MaxTempoSteps * TempoStep
        /\ t >= base - MaxTempoSteps * TempoStep

\* The tempo buttons: nothing renders when the clamped value is the old one.
SetTempo(t) ==
    /\ ControlsShown
    /\ TempoWithinReach(t)
    /\ tempo' = t
    /\ Commit(EffectResult(t # tempo, FALSE, timers, measureStartTimeRef, isPlaying,
                           currentMeasureIndex, score, t, selectedInstruments,
                           vocalAudioMap), "tempo")
    /\ UNCHANGED << score, isAnalyzing, isPreparingVocals, isPlaying,
                    selectedInstruments, currentMeasureIndex, vocalAudioMap, clock,
                    analyses >>

TempoDown == SetTempo(TempoDownValue(tempo))

TempoUp == SetTempo(TempoUpValue(tempo))

\* An InstrumentToggle onClick: a new Set with the instrument added or removed.
Toggled(sel, i) == IF i \in sel THEN sel \ {i} ELSE sel \cup {i}

ToggleInstrument ==
    \E i \in ToggleInputs :
        /\ ControlsShown
        /\ selectedInstruments' = Toggled(selectedInstruments, i)
        /\ Commit(EffectResult(TRUE, FALSE, timers, measureStartTimeRef, isPlaying,
                               currentMeasureIndex, score, tempo,
                               Toggled(selectedInstruments, i), vocalAudioMap), "toggle")
        /\ UNCHANGED << score, isAnalyzing, isPreparingVocals, isPlaying, tempo,
                        currentMeasureIndex, vocalAudioMap, clock, analyses >>

\* The setTimeout callback of scheduleNext, when the clock reaches its due time.
TimerFire ==
    \E t \in timers :
        /\ ~crashed
        /\ clock >= t.due
        /\ LET adv == AdvanceIndex(currentMeasureIndex, t.len)
               playing == IF adv.stop THEN FALSE ELSE isPlaying
           IN  /\ currentMeasureIndex' = adv.index
               /\ isPlaying' = playing
               /\ Commit(EffectResult(adv.index # currentMeasureIndex \/ playing # isPlaying,
                                      TRUE, timers \ {t}, measureStartTimeRef + t.dur,
                                      playing, adv.index, score, tempo,
                                      selectedInstruments, vocalAudioMap), "fire")
        /\ UNCHANGED << score, isAnalyzing, isPreparingVocals, tempo, selectedInstruments,
                        vocalAudioMap, clock, analyses >>

\* Time passes: up to TickStep, and never past the due time of a pending timer.
\* The clock is followed while playback is on; between two performances the
\* user acts without delay.
NextDue == IF timers = {} THEN MaxTime
           ELSE CHOOSE d \in {t.due : t \in timers} : \A t \in timers : d <= t.due

Tick ==
    /\ ~crashed
    /\ isPlaying
    /\ clock < MaxTime
    /\ \A t \in timers : clock < t.due
    /\ clock' = Min(clock + TickStep, Min(NextDue, MaxTime))
    /\ lastOp' = "tick"
    /\ wasPlaying' = isPlaying
    /\ calls' = << >>
    /\ UNCHANGED << score, isAnalyzing, isPreparingVocals, isPlaying, tempo,
                    selectedInstruments, currentMeasureIndex, vocalAudioMap,
                    playbackTimerRef, measureStartTimeRef, timers, analyses, crashed,
                    measureSounds, armedAt, armedTempo >>
    /\ UNCHANGED << engineVars, arrangerVars, graphVars >>

FreeSlot == CHOOSE a \in DOMAIN analyses :
                /\ analyses[a].phase = "idle"
                /\ \A b \in DOMAIN analyses : analyses[b].phase = "idle" => a <= b

\* The finally of startAnalysis: setIsAnalyzing(false).
AnalyzingAfterFinallyKept(analyzing) == analyzing
AnalyzingAfterFinally(analyzing) == FALSE

\* generateAllVocals asks for a clip for each measure whose lyrics, joined and
\* trimmed, are not empty.
VocalRequestsEveryMeasure(d) == 0..(d.n - 1)
VocalRequests(d) == d.lyrics

\* startAnalysis up to its first await (the Import input is always rendered).
StartAnalysis ==
    /\ ~crashed
    /\ \E a \in DOMAIN analyses : analyses[a].phase = "idle"
    /\ isAnalyzing' = TRUE
    /\ score' = NoScore
    /\ vocalAudioMap' = EmptyVocalMap
    /\ analyses' = [analyses EXCEPT ![FreeSlot] =
                      [phase |-> "transcribe", lyrics |-> {}]]
    /\ Commit(EffectResult(TRUE, TRUE, timers, measureStartTimeRef, isPlaying,
                           currentMeasureIndex, NoScore, tempo, selectedInstruments,
                           EmptyVocalMap), "import")
    /\ UNCHANGED << isPreparingVocals, isPlaying, tempo, selectedInstruments,
                    currentMeasureIndex, clock >>

\* geminiService.analyzeScore resolves: setScore, setTempo and generateAllVocals
\* up to its await.  With no measure carrying lyrics the promises are settled
\* already and the rest of startAnalysis runs before the next render.  One
\* generateVocalAudio request goes out per measure with lyrics.
AnalyzeResolveOf(d) ==
    \E a \in DOMAIN analyses :
        /\ ~crashed
        /\ analyses[a].phase = "transcribe"
        /\ LET sc == [id |-> a, n |-> d.n, tempo |-> d.tempo, lyrics |-> d.lyrics]
               done == VocalRequests(d) = {}
               vmap == IF done THEN [src |-> a, keys |-> {}] ELSE vocalAudioMap
           IN  /\ score' = sc
               /\ tempo' = LoadedTempo(d.tempo)
               /\ vocalAudioMap' = vmap
               /\ isPreparingVocals' = ~done
               /\ isAnalyzing' = IF done THEN AnalyzingAfterFinally(isAnalyzing)
                                ELSE isAnalyzing
               /\ analyses' = [analyses EXCEPT ![a] =
                                 IF done THEN IdleSlot
                                 ELSE [phase |-> "vocals",
                                       lyrics |-> VocalRequests(d)]]
               /\ Commit(EffectResult(TRUE, TRUE, timers, measureStartTimeRef, isPlaying,
                                      currentMeasureIndex, sc, LoadedTempo(d.tempo),
                                      selectedInstruments, vmap), "loaded")
        /\ UNCHANGED << isPlaying, selectedInstruments, currentMeasureIndex, clock >>

AnalyzeResolve == \E d \in ScoreInputs : AnalyzeResolveOf(d)

\* geminiService.analyzeScore rejects: the catch and the finally of startAnalysis.
AnalyzeReject ==
    \E a \in DOMAIN analyses :
        /\ ~crashed
        /\ analyses[a].phase = "transcribe"
        /\ isAnalyzing' = AnalyzingAfterFinally(isAnalyzing)
        /\ analyses' = [analyses EXCEPT ![a] = IdleSlot]
        /\ Commit(EffectResult(FALSE, FALSE, timers, measureStartTimeRef, isPlaying,
                               currentMeasureIndex, score, tempo, selectedInstruments,
                               vocalAudioMap), "failed")
        /\ UNCHANGED << score, isPreparingVocals, isPlaying, tempo, selectedInstruments,
                        currentMeasureIndex, vocalAudioMap, clock >>

\* The map generateAllVocals builds from the settled requests: an entry for
\* each result that is not null.
VocalMap(a, ok) == [src |-> a, keys |-> ok]

\* Promise.all of generateAllVocals settles: ok are the requests answered
\* with audio, a request that failed has resolved to null in its own catch.
\* Then the finally of startAnalysis.
VocalsDone ==
    \E a \in DOMAIN analyses :
        /\ ~crashed
        /\ analyses[a].phase = "vocals"
        /\ \E ok \in SUBSET analyses[a].lyrics :
           \E vmap \in {VocalMap(a, ok)} :
            /\ vocalAudioMap' = vmap
            /\ Commit(EffectResult(TRUE, FALSE, timers, measureStartTimeRef, isPlaying,
                                   currentMeasureIndex, score, tempo, selectedInstruments,
                                   vmap), "vocals")
        /\ isPreparingVocals' = FALSE
        /\ isAnalyzing' = AnalyzingAfterFinally(isAnalyzing)
        /\ analyses' = [analyses EXCEPT ![a] = IdleSlot]
        /\ UNCHANGED << score, isPlaying, tempo, selectedInstruments,
                        currentMeasureIndex, clock >>

Next ==
    \/ Play
    \/ Pause
    \/ Reset
    \/ TempoDown
    \/ TempoUp
    \/ ToggleInstrument
    \/ TimerFire
    \/ Tick
    \/ StartAnalysis
    \/ AnalyzeResolve
    \/ AnalyzeReject
    \/ VocalsDone

Spec == Init /\ [][Next]_vars

\* ------------------------------------------------- overlapping imports
\* The Import input stays enabled during an analysis, so a second file can be
\* chosen before the first analysis has settled.  This specification follows
\* the imports alone, up to MaxOverlap of them in flight, on scores with more
\* than one measure of lyrics.
ImportScoreInputs ==
    { [n |-> 1, tempo |-> 0, lyrics |-> {}],
      [n |-> 2, tempo |-> 120, lyrics |-> {0, 1}] }

InitImport ==
    /\ score = NoScore
    /\ isAnalyzing = FALSE
    /\ isPreparingVocals = FALSE
    /\ isPlaying = FALSE
    /\ tempo = DefaultTempo
    /\ selectedInstruments = InitialInstruments
    /\ currentMeasureIndex = 0
    /\ vocalAudioMap = EmptyVocalMap
    /\ playbackTimerRef = 0
    /\ measureStartTimeRef = 0
    /\ timers = {}
    /\ clock = 0
    /\ analyses = [a \in 1..MaxOverlap |-> IdleSlot]
    /\ crashed = FALSE
    /\ lastOp = "init"
    /\ wasPlaying = FALSE
    /\ calls = << >>
    /\ measureSounds = {}
    /\ armedAt = 0
    /\ armedTempo = DefaultTempo
    /\ pitch = << >>
    /\ frequency = NotResolved
    /\ measure = NoMeasure
    /\ arranged = << >>
    /\ earlier = {}
    /\ GraphInit

ImportResolve == \E d \in ImportScoreInputs : AnalyzeResolveOf(d)

NextImport ==
    \/ StartAnalysis
    \/ ImportResolve
    \/ AnalyzeReject
    \/ VocalsDone

SpecImport == InitImport /\ [][NextImport]_vars

\* ------------------------------------------------- the tempo
\* Scores of one measure whose tempo is missing (0), at and next to the ends
\* of the range of the tempo buttons, and outside that range.
TempoScoreInputs ==
    { [n |-> 1, tempo |-> t, lyrics |-> {}] : t \in {0, 30, 40, 45, 235, 240, 300} }

TempoResolve == \E d \in TempoScoreInputs : AnalyzeResolveOf(d)

NextTempo ==
    \/ StartAnalysis
    \/ TempoResolve
    \/ AnalyzeReject
    \/ TempoDown
    \/ TempoUp
    \/ Play
    \/ Pause

SpecTempo == Init /\ [][NextTempo]_vars

\* ------------------------------------------------- the pitch resolver
InitPitch ==
    /\ SchedulerInit
    /\ GraphInit
    /\ pitch \in PitchInputs
    /\ frequency = NotResolved
    /\ measure = NoMeasure
    /\ arranged = << >>
    /\ earlier = {}

\* const freq = this.getFrequency(pitch), in playNote.
ResolvePitch ==
    /\ lastOp = "init"
    /\ frequency' = GetFrequency(pitch)
    /\ lastOp' = "getFrequency"
    /\ UNCHANGED << pitch, schedulerVars, arrangerVars, graphVars >>

NextPitch == ResolvePitch

SpecPitch == InitPitch /\ [][NextPitch]_vars

\* ---------------------------------------------------- the output graph
\* The AudioEngine by itself: init(), the two getters and the three
\* synthesizers called in any order.  An object is the number of its
\* creation: the k-th context, and the master gain and analyser made with it.
\* G is the pair of the engine's fields e and the record g of what exists.
CreateGraph(G) ==
    [ e |-> [ctx |-> G.g.created + 1, masterGain |-> G.g.created + 1,
             analyser |-> G.g.created + 1],
      g |-> [G.g EXCEPT !.created = @ + 1] ]

\* init(): if (this.ctx) return; then the context, the gain, the analyser.
EngineInitAgain(G) == CreateGraph(G)
EngineInit(G) == IF G.e.ctx # 0 THEN G ELSE CreateGraph(G)

\* get context(): if (!this.ctx) this.init().
Context(G) == IF G.e.ctx = 0 THEN EngineInit(G) ELSE G

\* get analyserNode(): if (!this.analyser) this.init().
AnalyserNode(G) == IF G.e.analyser = 0 THEN EngineInit(G) ELSE G

\* gain.connect(this.masterGain!) or source.connect(this.masterGain!), and
\* the start of the source: one more sound of that synthesizer.
Connect(G, synth) ==
    [G EXCEPT !.g[synth] = @ + 1, !.g.targets = @ \cup {G.e.masterGain}]

Graph == [e |-> audioEngine, g |-> outputGraph]
EngineCalls ==
    outputGraph.notes + outputGraph.drums + outputGraph.clips + Len(decoding)

\* What a payload handed to playVocalBuffer may be: encoded audio, base64 of
\* something decodeAudioData rejects, or a string atob rejects.
NOT_AUDIO == "notAudio"
NOT_BASE64 == "notBase64"
PayloadInputs == {AUDIO, NOT_AUDIO, NOT_BASE64}

\* playVocalBuffer up to its await: the context, atob and the byte loop are
\* outside the try, so a string that is not base64 rejects the promise the
\* async function returned; otherwise the call waits at decodeAudioData.
VocalCallRejects(payload) == payload = NOT_BASE64
Unhandled(G) == [G EXCEPT !.g.unhandled = TRUE]
PendingDecode(payload, start) == [payload |-> payload, startTime |-> start]

\* The rest of playVocalBuffer when decodeAudioData settles for pending call
\* i: the source is connected and started, or the catch logs a warning.
Without(q, i) == SubSeq(q, 1, i - 1) \o SubSeq(q, i + 1, Len(q))
DecodeSettles(G, call) ==
    IF call.payload = AUDIO THEN Connect(G, "clips") ELSE G
SettleOp(call) == IF call.payload = AUDIO THEN "clip" ELSE "warn"

EngineStep(G, op) ==
    /\ audioEngine' = G.e
    /\ outputGraph' = G.g
    /\ lastOp' = op
    /\ UNCHANGED << schedulerVars, engineVars, arrangerVars, vocalPayload >>

CallInit == EngineStep(EngineInit(Graph), "engine.init") /\ UNCHANGED decoding

ReadContext == EngineStep(Context(Graph), "engine.context") /\ UNCHANGED decoding

ReadAnalyserNode ==
    EngineStep(AnalyserNode(Graph), "engine.analyserNode") /\ UNCHANGED decoding

EnginePitchInputs == { << "C", "4" >>, << "C", "b", "4" >> }

CallPlayNote ==
    \E p \in EnginePitchInputs :
        /\ EngineCalls < MaxEngineCalls
        /\ IF PlayNoteThrows(p)
           THEN EngineStep(Context(Graph), "engine.playNote threw")
           ELSE EngineStep(Connect(Context(Graph), "notes"), "engine.playNote")
        /\ UNCHANGED decoding

CallPlayDrum ==
    /\ EngineCalls < MaxEngineCalls
    /\ EngineStep(Connect(Context(Graph), "drums"), "engine.playDrum")
    /\ UNCHANGED decoding

CallPlayVocalBuffer ==
    \E payload \in PayloadInputs :
        /\ EngineCalls < MaxEngineCalls
        /\ IF VocalCallRejects(payload)
           THEN /\ EngineStep(Unhandled(Context(Graph)), "rejected")
                /\ UNCHANGED decoding
           ELSE /\ EngineStep(Context(Graph), "engine.playVocalBuffer")
                /\ decoding' = Append(decoding, PendingDecode(payload, QInt(clock)))

VocalSettle ==
    \E i \in 1..Len(decoding) :
        /\ EngineStep(DecodeSettles(Graph, decoding[i]), SettleOp(decoding[i]))
        /\ decoding' = Without(decoding, i)

NextEngine ==
    \/ CallInit
    \/ ReadContext
    \/ ReadAnalyserNode
    \/ CallPlayNote
    \/ CallPlayDrum
    \/ CallPlayVocalBuffer
    \/ VocalSettle

SpecEngine == Init /\ [][NextEngine]_vars

\* ---------------------------------------------------- the measure arranger
\* A loaded score of two measures alike, the instruments as the user toggled
\* them, and the vocal clips that could be generated.
ArrangerScore(t) == [id |-> 1, n |-> 2, tempo |-> t, lyrics |-> {0, 1}]
VocalKeyInputs == { {1}, {0, 1} }

\* Before the first press of play: the equalizer shown with the score has
\* read audioEngine.analyserNode.
LoadedAndStopped ==
    /\ vocalAudioMap \in { [src |-> 1, keys |-> k] : k \in VocalKeyInputs }
    /\ score = ArrangerScore(tempo)
    /\ isAnalyzing = FALSE
    /\ isPreparingVocals = FALSE
    /\ isPlaying = FALSE
    /\ playbackTimerRef = 0
    /\ measureStartTimeRef = 0
    /\ timers = {}
    /\ clock = 0
    /\ analyses = [a \in Slots |-> IdleSlot]
    /\ crashed = FALSE
    /\ lastOp = "init"
    /\ wasPlaying = FALSE
    /\ calls = << >>
    /\ measureSounds = {}
    /\ armedAt = 0
    /\ armedTempo = DefaultTempo
    /\ pitch = << >>
    /\ frequency = NotResolved
    /\ arranged = << >>
    /\ earlier = {}
    /\ \E G \in {AnalyserNode([e |-> NoEngine, g |-> NoOutput])} :
          /\ audioEngine = G.e
          /\ outputGraph = G.g
    /\ decoding = << >>

InitArrange ==
    /\ measure \in MeasureInputs
    /\ tempo \in TempoInputs
    /\ selectedInstruments \in SUBSET InstrumentType
    /\ vocalPayload = AUDIO
    /\ currentMeasureIndex = 0
    /\ LoadedAndStopped

\* What the calls of one playMeasure leave in the output graph: a source
\* connected and started for each playNote and playDrum call, and for a
\* playVocalBuffer call either a rejected promise nobody handles or nothing
\* yet.
IsTone(call) == call.instrument \in {PIANO, GUITAR, BASS}
IsBeat(call) == call.instrument = DRUMS
IsClip(call) == call.instrument = VOCAL
Tones(cs) == Cardinality({ i \in 1..Len(cs) : IsTone(cs[i]) })
Beats(cs) == Cardinality({ i \in 1..Len(cs) : IsBeat(cs[i]) })
Clips(cs) == Cardinality({ i \in 1..Len(cs) : IsClip(cs[i]) })
Submit(G, cs, payload) ==
    [G EXCEPT !.g.notes = @ + Tones(cs),
              !.g.drums = @ + Beats(cs),
              !.g.targets = IF Tones(cs) + Beats(cs) > 0
                            THEN @ \cup {G.e.masterGain} ELSE @,
              !.g.unhandled = @ \/ (Clips(cs) > 0 /\ VocalCallRejects(payload))]

\* The playVocalBuffer calls of one playMeasure that wait at decodeAudioData.
Awaited(cs, payload) ==
    IF VocalCallRejects(payload) THEN << >>
    ELSE [ i \in 1..Clips(cs) |->
             PendingDecode(payload, cs[CHOOSE j \in 1..Len(cs) : IsClip(cs[j])].startTime) ]

\* scheduleNext at time now for measure idx, with the anchor as the handler
\* left it and the engine G as it found it: the context is read for the
\* time, then playMeasure, then setTimeout unless playMeasure threw.
ScheduleNext(idx, anchor0, now, op, G) ==
    \E anchor \in {AnchorFor(anchor0, now)} :
    \E r \in {PlayMeasure(measure, idx \in vocalAudioMap.keys, QInt(anchor), tempo,
                          selectedInstruments)} :
    \E H \in {Submit(Context(G), r.calls, vocalPayload)} :
        /\ audioEngine' = H.e
        /\ outputGraph' = H.g
        /\ decoding' = decoding \o Awaited(r.calls, vocalPayload)
        /\ measureStartTimeRef' = anchor
        /\ arranged' = r.calls
        /\ earlier' = Relative(arranged, QInt(measureStartTimeRef))
        /\ crashed' = r.threw
        /\ timers' = IF r.threw THEN {}
                     ELSE { [ id |-> 1, due |-> now + MeasureDuration(tempo),
                              dur |-> MeasureDuration(tempo), len |-> score.n ] }
        /\ playbackTimerRef' = IF r.threw THEN playbackTimerRef ELSE 1
        /\ clock' = now
        /\ lastOp' = op
        /\ wasPlaying' = isPlaying

\* handlePlayToggle with isPlaying false, and the playback effect it starts.
ArrangePlay ==
    /\ ~crashed /\ ~isPlaying /\ lastOp = "init"
    /\ isPlaying' = TRUE
    /\ ScheduleNext(currentMeasureIndex, 0, clock, "play", EngineInit(Graph))
    /\ UNCHANGED << score, isAnalyzing, isPreparingVocals, tempo, selectedInstruments,
                    currentMeasureIndex, vocalAudioMap, analyses, calls, measureSounds,
                    armedAt, armedTempo, engineVars, measure, vocalPayload >>

\* The clock reaches the timer's due time and its callback runs: the next
\* measure is arranged one measure duration after the anchor.
ArrangeAdvance ==
    \E t \in timers :
        /\ ~crashed
        /\ ~AdvanceIndex(currentMeasureIndex, t.len).stop
        /\ currentMeasureIndex' = AdvanceIndex(currentMeasureIndex, t.len).index
        /\ ScheduleNext(AdvanceIndex(currentMeasureIndex, t.len).index,
                        measureStartTimeRef + t.dur, t.due, "next", Graph)
        /\ UNCHANGED << score, isAnalyzing, isPreparingVocals, isPlaying, tempo,
                        selectedInstruments, vocalAudioMap, analyses, calls,
                        measureSounds, armedAt, armedTempo, engineVars, measure,
                        vocalPayload >>

\* The timer of the last measure: setIsPlaying(false), the index back to 0,
\* and the effect's else branch.
ArrangeEnd ==
    \E t \in timers :
        /\ ~crashed
        /\ AdvanceIndex(currentMeasureIndex, t.len).stop
        /\ currentMeasureIndex' = AdvanceIndex(currentMeasureIndex, t.len).index
        /\ isPlaying' = FALSE
        /\ timers' = {}
        /\ measureStartTimeRef' = measureStartTimeRef + t.dur
        /\ clock' = t.due
        /\ lastOp' = "end"
        /\ wasPlaying' = isPlaying
        /\ UNCHANGED << score, isAnalyzing, isPreparingVocals, tempo, selectedInstruments,
                        vocalAudioMap, playbackTimerRef, analyses, crashed, calls,
                        measureSounds, armedAt, armedTempo, engineVars, arrangerVars,
                        graphVars >>

NextArrange == ArrangePlay \/ ArrangeAdvance \/ ArrangeEnd

SpecArrange == InitArrange /\ [][NextArrange]_vars

\* ------------------------------------------------- a whole performance
\* Play is pressed once, at any measure of the score, and nothing else is
\* pressed.  A pending timer's callback is run by the event loop once the
\* time has come: weak fairness of the two timer actions.
PerformMeasureInputs ==
    { m \in MeasureInputs :
        Len(m.melody) <= 1 /\ m.chords = << >> /\ m.drumGroove = "" }
PerformInstrumentInputs == SUBSET {PIANO, DRUMS, FEMALE_VOCAL}

InitPerform ==
    /\ measure \in PerformMeasureInputs
    /\ tempo \in TempoInputs
    /\ selectedInstruments \in PerformInstrumentInputs
    /\ vocalPayload = AUDIO
    /\ currentMeasureIndex \in 0..(ArrangerScore(tempo).n - 1)
    /\ LoadedAndStopped

SpecPerform ==
    /\ InitPerform
    /\ [][NextArrange]_vars
    /\ WF_vars(ArrangeAdvance)
    /\ WF_vars(ArrangeEnd)

\* ------------------------------------------------------ the vocal clips
\* The same performance with the decodes of playVocalBuffer settling at any
\* later point, on payloads of each kind, and with the pause button.  The
\* measures have at most one note, of a pitch playNote resolves.
VocalMeasureInputs ==
    { m \in MeasureInputs :
        /\ Len(m.melody) <= 1 /\ m.chords = << >> /\ m.drumGroove = ""
        /\ \A k \in 1..Len(m.melody) : ~PlayNoteThrows(m.melody[k].pitch) }
VocalInstrumentInputs == SUBSET {PIANO, DRUMS, MALE_VOCAL, FEMALE_VOCAL}

InitVocal ==
    /\ measure \in VocalMeasureInputs
    /\ tempo \in TempoInputs
    /\ selectedInstruments \in VocalInstrumentInputs
    /\ vocalPayload \in PayloadInputs
    /\ currentMeasureIndex = 0
    /\ LoadedAndStopped

\* handlePlayToggle with isPlaying true: init() returns at once, and the
\* cleanup of the playback effect clears the timer.
ArrangePause ==
    /\ ~crashed /\ isPlaying
    /\ isPlaying' = FALSE
    /\ timers' = ClearTimeout(timers, playbackTimerRef)
    /\ \E G \in {EngineInit(Graph)} : audioEngine' = G.e /\ outputGraph' = G.g
    /\ lastOp' = "pause"
    /\ wasPlaying' = isPlaying
    /\ UNCHANGED << score, isAnalyzing, isPreparingVocals, tempo, selectedInstruments,
                    currentMeasureIndex, vocalAudioMap, playbackTimerRef,
                    measureStartTimeRef, clock, analyses, crashed, calls,
                    measureSounds, armedAt, armedTempo, engineVars, arrangerVars,
                    decoding, vocalPayload >>

NextVocal ==
    \/ ArrangePlay
    \/ ArrangeAdvance
    \/ ArrangeEnd
    \/ ArrangePause
    \/ VocalSettle

SpecVocal == InitVocal /\ [][NextVocal]_vars

\* ============================================================== claims

\* A measure is armed: playback is on and its advance timer is pending.
Armed == isPlaying /\ timers # {}

\* C1: in every reachable state at most one measure-advance timer is pending,
\* whatever the interleaving of play, pause, reset, tempo presses, toggles,
\* analyses and timer fires.
C1_AtMostOneTimer == Cardinality(timers) <= 1

\* A toggle re-ran the effect in the middle of an armed measure and one timer
\* is pending.
C1_Witness ==
    /\ lastOp = "toggle" /\ wasPlaying /\ isPlaying
    /\ clock > armedAt
    /\ Cardinality(timers) = 1

\* C2: a tempo change made while measure N is armed leaves N's pending advance
\* as it was (due one measure-duration, at the tempo in effect when N was
\* armed, after N was armed) and arranges nothing: the new tempo is first used
\* for measure N+1.
C2_TempoChangeKeepsArmedMeasure ==
    (lastOp = "tempo" /\ wasPlaying /\ isPlaying) =>
        /\ \A t \in timers : /\ t.due = armedAt + MeasureDuration(armedTempo)
                             /\ t.dur = MeasureDuration(armedTempo)
        /\ calls = << >>

\* C3: while measure N is armed, a toggle or a tempo press issues no
\* sound-scheduling call and neither cancels nor restarts the pending timer.
C3_ToggleLeavesArmedMeasure ==
    [][ (Armed /\ lastOp' \in {"toggle", "tempo"}) =>
            (calls' = << >> /\ timers' = timers) ]_vars

\* C4: while playing, the start time used for measure N+1 is the start time of
\* measure N plus the measure duration at the tempo in effect when N was
\* armed, and no other step changes the anchor.
C4_AnchorAdvancesByArmedDuration ==
    [][ /\ (lastOp' = "fire" /\ isPlaying') =>
               measureStartTimeRef' = measureStartTimeRef + MeasureDuration(armedTempo)
        /\ (isPlaying /\ isPlaying' /\ lastOp' # "fire") =>
               measureStartTimeRef' = measureStartTimeRef ]_vars

\* C5: with timers firing on time, every arrangement is made with the same
\* lead: its start time is the audio clock at that moment plus 0.1 s.
C5_ConstantLead ==
    \A i \in 1..Len(calls) : calls[i].startTime = clock + LeadMs

\* C6: when the advance timer fires at the last measure of the score the
\* scheduler stops at index 0, arms no timer and arranges nothing; and from a
\* stopped scheduler only play arranges a measure.
C6_StopsAtEnd ==
    [][ /\ (lastOp' = "fire" /\ score.id # 0 /\ currentMeasureIndex = score.n - 1) =>
               /\ ~isPlaying'
               /\ currentMeasureIndex' = 0
               /\ timers' = {}
               /\ calls' = << >>
        /\ (~isPlaying /\ calls' # << >>) => lastOp' = "play" ]_vars

\* The timer of the last measure of the three-measure score has fired.
C6_Witness ==
    /\ lastOp = "fire" /\ wasPlaying /\ ~isPlaying
    /\ score.n = 3 /\ currentMeasureIndex = 0
    /\ timers = {}

\* C7: whenever a score is loaded, currentMeasureIndex is one of its measures,
\* and so is every measure handed to playMeasure.
C7_IndexInRange ==
    score.id # 0 =>
        /\ currentMeasureIndex >= 0
        /\ currentMeasureIndex < score.n
        /\ \A i \in 1..Len(calls) : calls[i].index < score.n

\* C8: pause cancels the pending timer and leaves the index, the tempo and
\* the instruments as they were; no advance fires while stopped.
C8_PauseCancelsTimer ==
    [][ /\ (isPlaying /\ lastOp' = "pause") =>
               /\ ~isPlaying'
               /\ timers' = {}
               /\ currentMeasureIndex' = currentMeasureIndex
               /\ tempo' = tempo
               /\ selectedInstruments' = selectedInstruments
        /\ ~isPlaying => lastOp' # "fire" ]_vars

\* Playback was paused inside the second measure, whose timer was pending.
C8_Witness ==
    /\ lastOp = "pause" /\ wasPlaying /\ ~isPlaying
    /\ currentMeasureIndex = 1
    /\ clock > 1000
    /\ timers = {}

\* C9: reset, from playing or stopped and from any index, leaves the
\* scheduler stopped at index 0 with the anchor zeroed and no timer pending.
C9_ResetStops ==
    lastOp = "reset" =>
        /\ ~isPlaying
        /\ currentMeasureIndex = 0
        /\ measureStartTimeRef = 0
        /\ timers = {}

\* Reset was pressed during playback, after the clock had run.
C9_Witness ==
    /\ lastOp = "reset" /\ wasPlaying
    /\ clock > 1000
    /\ playbackTimerRef # 0

\* C10: play from stopped sets the anchor to the audio clock plus 0.1 s and
\* arms the measure at the retained index; a tempo press while playing leaves
\* the anchor alone.
C10_PlayArmsRetainedIndex ==
    [][ /\ (~isPlaying /\ lastOp' = "play") =>
               /\ isPlaying'
               /\ measureStartTimeRef' = clock + LeadMs
               /\ currentMeasureIndex' = currentMeasureIndex
               /\ \E t \in timers' : t.due = clock + MeasureDuration(tempo)
        /\ (isPlaying /\ lastOp' = "tempo") =>
               measureStartTimeRef' = measureStartTimeRef ]_vars


\* C11: pausing or resetting leaves every arrangement already submitted to the
\* output graph as it is: none is cancelled, shortened or muted.
C11_StopKeepsSubmittedSounds ==
    [][ lastOp' \in {"pause", "reset"} => measureSounds' = measureSounds ]_vars

C11_Witness ==
    /\ lastOp = "pause" /\ wasPlaying /\ ~isPlaying
    /\ \E e \in measureSounds :
          e.startTime <= clock /\ clock < e.startTime + MeasureDuration(MaxTempo)

\* The semitone of a note name above C, as the pitch resolver's contract
\* counts it: the letter's place in the scale, raised by # and lowered by b.
LetterFromC == [ l \in Letters |->
                   CASE l = "C" -> 0 [] l = "D" -> 2 [] l = "E" -> 4 [] l = "F" -> 5
                     [] l = "G" -> 7 [] l = "A" -> 9 [] l = "B" -> 11 ]
SemitoneFromC(note) ==
    IF Len(note) = 1 THEN LetterFromC[note[1]]
    ELSE IF note[2] = "#" THEN (LetterFromC[note[1]] + 1) % 12
    ELSE (LetterFromC[note[1]] + 11) % 12

\* C19: for every pitch that parses, the frequency is 440 * 2^(d/12) with
\* d = (offset - 9) + (octave - 4) * 12, offset being the semitone of the
\* letter and accidental above C; so A4 is 440 Hz.
C19_SemitonesFromA4 ==
    (lastOp = "getFrequency" /\ Match(pitch).ok) =>
        frequency = Tone((SemitoneFromC(Match(pitch).note) - 9)
                         + (DigitValue[Match(pitch).octave] - 4) * 12)

\* C20: getFrequency never fails: a string without a match gives 440 Hz
\* exactly, and a string with one (any letter A-G, with or without # or b,
\* any octave digit) gives a defined frequency from an offset in 0..11.
C20_FrequencyTotal ==
    lastOp = "getFrequency" =>
        /\ ~Match(pitch).ok => frequency = Tone(0)
        /\ Match(pitch).ok =>
              /\ ~frequency.nan
              /\ \E offset \in 0..11 :
                    frequency = Tone(offset + (DigitValue[Match(pitch).octave] - 4) * 12)

\* ---- the arranger's claims: the state right after a playMeasure call
Arranged == lastOp \in {"play", "next"}
StartTime == QInt(measureStartTimeRef)
Beat == BeatDuration(tempo)
MelodicSelected == selectedInstruments \cap {PIANO, GUITAR} # {}
VocalSelected == selectedInstruments \cap {MALE_VOCAL, FEMALE_VOCAL} # {}
IsMelody(c) == c.instrument \in {PIANO, GUITAR}
IsBass(c) == c.instrument = BASS
IsDrum(c) == c.instrument = DRUMS
IsVocal(c) == c.instrument = VOCAL
IsHihat(c) == c.instrument = DRUMS /\ c.voice = << "hihat" >>
IsKick(c) == c.instrument = DRUMS /\ c.voice = << "kick" >>
IsSnare(c) == c.instrument = DRUMS /\ c.voice = << "snare" >>

\* the beats of the first k notes of a melody
RECURSIVE BeatsBefore(_, _)
BeatsBefore(melody, k) ==
    IF k = 0 THEN QInt(0) ELSE QAdd(BeatsBefore(melody, k - 1), melody[k].duration)

\* C12: with a melodic instrument selected, melody note k is scheduled at
\* startTime plus the lengths of the notes before it, for duration_k beats,
\* so that each note ends where the next one begins, whatever the notes add
\* up to.
C12_MelodyBackToBack ==
    (Arranged /\ MelodicSelected) =>
        LET mel == SelectSeq(arranged, IsMelody)
        IN  /\ Len(mel) = Len(measure.melody)
            /\ \A k \in 1..Len(mel) :
                  /\ mel[k].startTime =
                        QAdd(StartTime, QMul(BeatsBefore(measure.melody, k - 1), Beat))
                  /\ mel[k].duration = QMul(measure.melody[k].duration, Beat)
            /\ \A k \in 1..(Len(mel) - 1) :
                  QAdd(mel[k].startTime, mel[k].duration) = mel[k + 1].startTime

\* C13: with bass selected, a measure of N >= 1 chords gets exactly N bass
\* tones, tone i (from 0) at startTime + i * (4 beats / N), 4 beats / N long,
\* on the first character of chord i and octave 2, the slots adding up to
\* four beats; a measure without chords gets no bass tone.
C13_BassTilesMeasure ==
    (Arranged /\ BASS \in selectedInstruments) =>
        LET bass == SelectSeq(arranged, IsBass)
            N == Len(measure.chords)
        IN  /\ Len(bass) = N
            /\ \A k \in 1..Len(bass) :
                  /\ QMul(QInt(N), bass[k].duration) = QMul(QInt(BeatsPerMeasure), Beat)
                  /\ bass[k].startTime = QAdd(StartTime, QMul(QInt(k - 1), bass[k].duration))
                  /\ bass[k].voice = (IF Len(measure.chords[k]) = 0 THEN << "2" >>
                                      ELSE << measure.chords[k][1], "2" >>)

\* C14: with drums selected every measure, whatever its drumGroove, gets 8
\* hi-hats at startTime + k half-beats (k = 0..7), kicks at beats 0 and 2
\* and snares at beats 1 and 3, and no other drum.
C14_FixedDrumPattern ==
    (Arranged /\ DRUMS \in selectedInstruments) =>
        LET at(h) == QAdd(StartTime, QMul(Q(h, 2), Beat))
            starts(s) == {s[i].startTime : i \in 1..Len(s)}
            hihat == SelectSeq(arranged, IsHihat)
            kick == SelectSeq(arranged, IsKick)
            snare == SelectSeq(arranged, IsSnare)
        IN  /\ Len(hihat) = 8 /\ starts(hihat) = {at(h) : h \in 0..7}
            /\ Len(kick) = 2 /\ starts(kick) = {at(0), at(4)}
            /\ Len(snare) = 2 /\ starts(snare) = {at(2), at(6)}
            /\ Len(SelectSeq(arranged, IsDrum)) = 12

\* C15: an arranged measure gets exactly one vocal clip, at its startTime,
\* when a vocal instrument is selected and vocalAudioMap holds a payload for
\* its index, and no vocal clip otherwise.
C15_OneVocalClip ==
    Arranged =>
        LET vocal == SelectSeq(arranged, IsVocal)
        IN  IF VocalSelected /\ currentMeasureIndex \in vocalAudioMap.keys
            THEN Len(vocal) = 1 /\ vocal[1].startTime = StartTime
            ELSE Len(vocal) = 0

\* C16: every sound of an arranged measure belongs to a selected category;
\* with no instrument selected the measure gets no sound and the advance
\* timer is armed all the same; the melody sounds on the piano when the
\* piano is selected and on the guitar only when the guitar is selected
\* without it.
C16_OnlySelectedCategories ==
    Arranged =>
        /\ \A i \in 1..Len(arranged) :
              /\ IsMelody(arranged[i]) => MelodicSelected
              /\ IsBass(arranged[i]) => BASS \in selectedInstruments
              /\ IsDrum(arranged[i]) => DRUMS \in selectedInstruments
              /\ IsVocal(arranged[i]) => VocalSelected
              /\ arranged[i].instrument = PIANO => PIANO \in selectedInstruments
              /\ arranged[i].instrument = GUITAR =>
                    GUITAR \in selectedInstruments /\ PIANO \notin selectedInstruments
        /\ selectedInstruments = {} =>
              arranged = << >> /\ ~crashed /\ Cardinality(timers) = 1

C16_Witness ==
    /\ lastOp = "next" /\ {PIANO, GUITAR} \subseteq selectedInstruments
    /\ \E i \in 1..Len(arranged) : arranged[i].instrument = PIANO

NonDecreasing(s) == \A i \in 1..(Len(s) - 1) : QLeq(s[i].startTime, s[i + 1].startTime)

\* C17 as claimed: the calls of each track (melody, bass, drums, vocal) carry
\* non-decreasing start times in the order they are made.
C17_TrackStartsNonDecreasing ==
    Arranged =>
        /\ NonDecreasing(SelectSeq(arranged, IsMelody))
        /\ NonDecreasing(SelectSeq(arranged, IsBass))
        /\ NonDecreasing(SelectSeq(arranged, IsDrum))
        /\ NonDecreasing(SelectSeq(arranged, IsVocal))

\* C17 as amended: the calls of the melody, of the bass, of the vocal and of
\* each drum voice (hi-hat, kick, snare) carry non-decreasing start times in
\* the order they are made.
C17_VoiceStartsNonDecreasing ==
    Arranged =>
        /\ NonDecreasing(SelectSeq(arranged, IsMelody))
        /\ NonDecreasing(SelectSeq(arranged, IsBass))
        /\ NonDecreasing(SelectSeq(arranged, IsHihat))
        /\ NonDecreasing(SelectSeq(arranged, IsKick))
        /\ NonDecreasing(SelectSeq(arranged, IsSnare))
        /\ NonDecreasing(SelectSeq(arranged, IsVocal))

C17_Witness ==
    /\ lastOp = "next" /\ {GUITAR, BASS, DRUMS} \subseteq selectedInstruments
    /\ Len(SelectSeq(arranged, IsMelody)) >= 2
    /\ Len(SelectSeq(arranged, IsBass)) >= 2
    /\ Len(SelectSeq(arranged, IsHihat)) = 8

\* C18: a measure arranged again with the same tempo, instruments and vocal
\* payload gets the same events (instrument, offset from startTime,
\* duration) as before, whatever the two start times.
C18_SameRelativeEvents ==
    (lastOp = "next" /\ (VocalSelected => vocalAudioMap.keys = {0, 1})) =>
        Relative(arranged, StartTime) = earlier

C18_Witness ==
    /\ lastOp = "next" /\ selectedInstruments = InstrumentType
    /\ vocalAudioMap.keys = {0, 1} /\ tempo = DefaultTempo
    /\ Len(measure.melody) = MaxNotes /\ Len(measure.chords) = MaxChords
    /\ measureStartTimeRef > MeasureDuration(tempo)
    /\ Cardinality(earlier) >= 12 + MaxChords + 1

\* C28: whenever a measure is armed (playing, a score loaded, the advance
\* timer pending), the vocal clips of that score have been prepared:
\* isPreparingVocals is false and the map in use was built for that score.
C28_ArmedOnlyAfterVocals ==
    (isPlaying /\ score.id # 0 /\ timers # {}) =>
        /\ ~isPreparingVocals
        /\ vocalAudioMap.src = score.id

\* C23: the vocal map holds clips of the loaded score only: whenever it has
\* an entry, the entry was generated for the score that is loaded now.
C23_MapOfLoadedScore ==
    vocalAudioMap.keys # {} => vocalAudioMap.src = score.id

\* The steps in which analysis a ends: its transcription fails (no score is
\* set), or its vocal requests settle, with or without a clip for each.
TranscriptionFailed(a) ==
    /\ analyses[a].phase = "transcribe"
    /\ analyses'[a].phase = "idle"
    /\ score' = score
VocalsSettled(a) ==
    /\ analyses[a].phase = "vocals"
    /\ analyses'[a].phase = "idle"
VocalGenerationFailed(a) ==
    /\ VocalsSettled(a)
    /\ vocalAudioMap'.keys # analyses[a].lyrics
Surfaced == lastOp' = "failed"

\* C24 as stated: a failure of the transcription or of the vocal generation
\* is surfaced as one failure of the analysis, and isAnalyzing is false then.
C24_EveryFailureSurfaced ==
    [][ \A a \in DOMAIN analyses :
          (TranscriptionFailed(a) \/ VocalGenerationFailed(a)) =>
              (Surfaced /\ ~isAnalyzing') ]_vars

\* C24 as amended: a failure of the transcription is surfaced in the step in
\* which the analysis ends, one alert for one analysis, and isAnalyzing is
\* false then; a failed vocal request is not surfaced, the analysis ends as a
\* success.
C24_TranscriptionFailureSurfacedOnce ==
    [][ /\ \A a \in DOMAIN analyses :
              /\ TranscriptionFailed(a) => (Surfaced /\ ~isAnalyzing')
              /\ VocalGenerationFailed(a) => (~Surfaced /\ ~isAnalyzing')
        /\ Surfaced =>
              \E a \in DOMAIN analyses :
                  /\ TranscriptionFailed(a)
                  /\ \A b \in DOMAIN analyses \ {a} : analyses'[b] = analyses[b] ]_vars
C24_Witness ==
    /\ lastOp = "failed"
    /\ ~isAnalyzing
    /\ \A a \in DOMAIN analyses : analyses[a].phase = "idle"

C29_TempoPositive ==
    /\ [](/\ tempo > 0
          /\ lastOp = "init" => tempo = DefaultTempo
          /\ (lastOp = "loaded" /\ score.tempo = 0) => tempo = DefaultTempo
          /\ MeasureDuration(tempo) > 0
          /\ \A t \in timers : t.dur > 0)
    /\ [][ (lastOp' = "tempo" /\ tempo \in MinTempo..MaxTempo) =>
              /\ tempo' \in MinTempo..MaxTempo
              /\ tempo' \in {Max(MinTempo, tempo - TempoStep),
                             Min(MaxTempo, tempo + TempoStep)} ]_vars
C29_Witness ==
    /\ lastOp = "tempo"
    /\ tempo = MinTempo
    /\ score.tempo = MinTempo
    /\ timers # {}

\* C21: the output graph is created at most once.  At most one context was
\* ever created and the engine holds all of the context, the master gain and
\* the analyser or none of them; once set they are never replaced or
\* cleared; every source was connected to that one master gain, never to
\* an undefined one; and any call of a getter or a synthesizer leaves the
\* graph in place.
C21_GraphCreatedOnce ==
    /\ [](/\ outputGraph.created <= 1
          /\ audioEngine \in {NoEngine, [ctx |-> 1, masterGain |-> 1, analyser |-> 1]}
          /\ audioEngine.ctx = outputGraph.created
          /\ outputGraph.targets \subseteq {1}
          /\ lastOp # "init" => audioEngine # NoEngine)
    /\ [][ audioEngine # NoEngine => audioEngine' = audioEngine ]_vars
C21_Witness ==
    /\ outputGraph.created = 1
    /\ outputGraph.notes > 0 /\ outputGraph.drums > 0 /\ outputGraph.clips > 0
    /\ outputGraph.targets = {1}

\* The sounds registered with the output graph so far.
SoundsRegistered(g) == g.notes + g.drums + g.clips

\* C22: a payload that cannot be turned into a playable buffer, at whichever
\* stage it fails, costs the measure its vocal line and nothing else: no
\* clip is started, no error leaves playVocalBuffer (its promise does not
\* reject), playMeasure does not throw, and the timer of the measure is
\* armed as for any other measure.
C22_UndecodablePayloadSwallowed ==
    vocalPayload # AUDIO =>
        /\ outputGraph.clips = 0
        /\ ~outputGraph.unhandled
        /\ ~crashed
        /\ lastOp \in {"play", "next"} => Cardinality(timers) = 1

\* C27: a sound is registered with the output graph only while the
\* scheduler is Playing, the clip of a decode that settles late included.
C27_SoundsOnlyWhilePlaying ==
    [][ SoundsRegistered(outputGraph') > SoundsRegistered(outputGraph) => isPlaying' ]_vars

\* C26: once playing and left alone, the scheduler arms the measures from
\* the current one to the last, in order and each once, one timer fire per
\* measure, and then is stopped at index 0: playback that is on leads to
\* playback off at index 0; while it is on a timer is pending for the
\* current measure; a fire moves the index by one and happens one measure
\* duration after the measure was armed; the fire of the last measure stops.
C26_PlaysToTheEnd ==
    /\ isPlaying ~> (~isPlaying /\ currentMeasureIndex = 0)
    /\ [](isPlaying => (Cardinality(timers) = 1 /\ currentMeasureIndex < score.n))
    /\ [][ /\ lastOp' = "next" =>
                /\ currentMeasureIndex' = currentMeasureIndex + 1
                /\ clock' = clock + MeasureDuration(tempo)
                /\ isPlaying'
           /\ lastOp' = "end" =>
                /\ currentMeasureIndex = score.n - 1
                /\ clock' = clock + MeasureDuration(tempo)
                /\ ~isPlaying' /\ currentMeasureIndex' = 0 /\ timers' = {} ]_vars
====
